---- MODULE Spec2Model ----
(***************************************************************************)
(* TubeTune: the persistent download scheduler (class DownloadQueue with   *)
(* the .queue-state.json state file, src/unnamed/part_003) together with   *)
(* the collaborator downloadWithYtDlp (src/unnamed/part_002, lines 21-268).*)
(*                                                                         *)
(* A job is an item object; the model names the objects 1..MaxJobs in the  *)
(* order addUrl creates them.  Node runs every handler to completion, so   *)
(* each handler (with the synchronous calls it makes) is one action.  The  *)
(* continuation of processNext after its await is the handler of the       *)
(* attempt's settlement.  The file system is fault free in Spec: every     *)
(* writeFileSync of saveQueueState succeeds.                               *)
(*                                                                         *)
(* The proxy rotator (src/core/ProxyRotator.js) is a component of its own: *)
(* the scheduler only hands the proxy it returns to the attempt, and no    *)
(* field of the scheduler depends on it.  SpecRotator runs the rotator     *)
(* under the calls the scheduler and its attempts make; in Spec the        *)
(* rotator rests.  SpecLive is the scheduler under fair scheduling, with   *)
(* neither pauseAll nor clearQueue; SpecLoad is the construction of a      *)
(* scheduler over any state file; SpecResume is a scheduler that works off *)
(* the queue of an earlier session; SpecFault is the scheduler on a disk   *)
(* that cannot be written; SpecIds is the scheduler with the ids that      *)
(* addUrl gives to the items as the keys of the processing Map;            *)
(* SpecProgress is the scheduler with the progress samples of its attempts *)
(* and the aggregate it emits; SpecCore is the scheduler of                *)
(* src/core/DownloadQueue.js, the class the CLI imports.                   *)
(***************************************************************************)
EXTENDS Integers, Sequences, FiniteSets, TLC

\* Bound of the model: how many addUrl calls are made.
MaxJobs == 3

\* Bounds of the rotator's model: the length of the constructor's proxy list
\* (ten distinct entries in the source), how many proxies addProxy adds, how
\* many rotations are counted, how many error-output chunks one attempt reads.
PoolSize == 3
MaxAdded == 1
MaxRotations == 9
MaxChunks == 2

\* Date.now() takes the values 1..MaxClock (milliseconds).
MaxClock == 2

\* Bound of SpecProgress: how many addUrl calls a session with progress
\* samples makes (as many as may download at once).
MaxReporting == 2

\* src/core/Config.js
MAX_CONCURRENT_DOWNLOADS == 2
MAX_ATTEMPTS == 3

Jobs == 1..MaxJobs

\* The proxy strings: those of the constructor's list and one more, which
\* addProxy can add.  null is NoProxy.
Proxies == 1..(PoolSize + 1)

NoProxy == 0

\* The currentProxy of a slot that runs no attempt.
Idle == 0 - 1

\* The attempts that run at the same time, each with the proxy it was given.
Slots == 1..MAX_CONCURRENT_DOWNLOADS

\* The values of Date.now().
Clock == 1..MaxClock

VARIABLES
    queue,        \* this.queue: sequence of items (head first)
    processing,   \* this.processing: the items held by the Map
    completed,    \* this.completed
    failed,       \* this.failed (copies {...item, error})
    item,         \* the fields of each item object: attempts, status
    attempt,      \* per item: the state of its pending downloadWithYtDlp promise
    timers,       \* pending setTimeout(() => this.processNext()) callbacks
    file,         \* the content of .queue-state.json
    created,      \* number of addUrl calls so far
    started,      \* history: attempts started per existing item (calls of
                  \* downloadWithYtDlp made for it)
    pausedJobs,   \* history: the items pauseAll found processing, when the last
                  \* handler that ran was pauseAll
    log           \* history: the events the last handler emitted, each with what
                  \* a listener saw of the event's item; or the mark that the
                  \* scheduler has just been constructed

vars == <<queue, processing, completed, failed, item, attempt, timers, file,
          created, started, pausedJobs, log>>

VARIABLES
    proxies,        \* proxyRotator.proxies: sequence of proxy strings
    currentIndex,   \* proxyRotator.currentIndex (0-based)
    failedProxies,  \* proxyRotator.failedProxies
    rotationCount,  \* proxyRotator.rotationCount
    currentProxy,   \* per running attempt: its currentProxy (part_002 line 82);
                    \* Idle when the slot runs no attempt
    failCalls,      \* history: per running attempt, how often it has called
                    \* markProxyAsFailed
    added,          \* number of addProxy calls so far
    lastCall        \* history: the last call of a rotator method, with its
                    \* argument and what it returned

rvars == <<proxies, currentIndex, failedProxies, rotationCount, currentProxy,
           failCalls, added, lastCall>>

VARIABLES
    writable        \* the environment: fs.writeFileSync of the state file succeeds

VARIABLES
    clock,          \* Date.now()
    ids,            \* the id of each item, in the order of the addUrl calls
    idQueue,        \* this.queue, as the numbers of the items
    idMap,          \* this.processing: the Map from item.id to the item
    idRunning,      \* the items whose downloadWithYtDlp promise is pending
    idTimers        \* pending setTimeout(() => this.processNext()) callbacks

ivars == <<clock, ids, idQueue, idMap, idRunning, idTimers>>

VARIABLES
    progressData    \* this.progressData: the Map from item.id to the last
                    \* progress sample stored for the item

\* The scheduler together with its progress bookkeeping.
pvars == <<queue, processing, completed, failed, item, attempt, timers, file,
           created, started, pausedJobs, log, progressData>>

\* The scheduler together with the disk it writes to.
fvars == <<queue, processing, completed, failed, item, attempt, timers, file,
           created, started, pausedJobs, log, writable>>

Range(s) == {s[i] : i \in 1..Len(s)}

\* The messages of the errors an attempt is rejected with (part_002 lines
\* 233-256): two of them.
ErrorMessages == {"yt-dlp failed with code 1", "IP/Proxy blocked by YouTube"}

\* An item that does not exist (not yet created, or lost with its process).
\* error is the field that the copy of the item in the failed list carries.
NoItem == [attempts |-> 0, status |-> "none", error |-> "none"]

\* parses: JSON.parse accepts the text of the file.
NoFile ==
    [exists |-> FALSE, parses |-> FALSE, queue |-> <<>>, completed |-> <<>>,
     failed |-> <<>>]

\* The persisted form of item j (JSON.stringify of the object).
ItemRec(it, j) ==
    [job |-> j, attempts |-> it[j].attempts, status |-> it[j].status,
     error |-> it[j].error]

RecsOf(it, s) == [i \in 1..Len(s) |-> ItemRec(it, s[i])]

JobsOf(recs) == [i \in 1..Len(recs) |-> recs[i].job]

\* saveQueueState: the state object written to the file: queue, completed and
\* failed.  The processing map is not part of it.
SaveQueueState(q, c, f, it) ==
    [exists |-> TRUE, parses |-> TRUE, queue |-> RecsOf(it, q),
     completed |-> RecsOf(it, c), failed |-> RecsOf(it, f)]

\* The collections that hold item j: what a listener, or any caller between two
\* handlers, can find out about j.
Where(q, p, c, f, j) ==
    (IF j \in Range(q) THEN {"queued"} ELSE {}) \cup
    (IF j \in p THEN {"processing"} ELSE {}) \cup
    (IF j \in Range(c) THEN {"completed"} ELSE {}) \cup
    (IF j \in Range(f) THEN {"failed"} ELSE {})

\* this.emit(n, item, ...) with the scheduler in the state (q, p, c, f, it).
Emit(n, j, q, p, c, f, it) ==
    [name |-> n, job |-> j, where |-> Where(q, p, c, f, j), status |-> it[j].status,
     error |-> "none"]

\* this.emit('downloadFailed', item, error): the event carries the error.
EmitFailed(j, err, q, p, c, f, it) ==
    [Emit("downloadFailed", j, q, p, c, f, it) EXCEPT !.error = err]

Constructed ==
    [name |-> "constructed", job |-> 0, where |-> {}, status |-> "none",
     error |-> "none"]

\* The mark that the handler which ran last was the catch block of processNext,
\* entered for item j; err is the message of the error when the item has no
\* attempt left, and "none" when it is retried.
Rejected(j, err) ==
    [name |-> "rejected", job |-> j, where |-> {}, status |-> "none", error |-> err]

\* No rotator method has been called yet.
NoCall == [op |-> "none", arg |-> NoProxy, ret |-> NoProxy]

\* The fields that the constructors set (part_003 lines 11-26, ProxyRotator.js
\* lines 4-21) before loadQueueState runs, with the state file f on the disk
\* and the history l.
InitWith(f, l) ==
    /\ queue = <<>>
    /\ processing = {}
    /\ completed = <<>>
    /\ failed = <<>>
    /\ item = [j \in Jobs |-> NoItem]
    /\ attempt = [j \in Jobs |-> "none"]
    /\ timers = 0
    /\ file = f
    /\ created = 0
    /\ started = [j \in Jobs |-> 0]
    /\ pausedJobs = {}
    /\ log = l
    /\ proxies = [i \in 1..PoolSize |-> i]
    /\ currentIndex = 0
    /\ failedProxies = {}
    /\ rotationCount = 0
    /\ currentProxy = [s \in Slots |-> Idle]
    /\ failCalls = [s \in Slots |-> 0]
    /\ added = 0
    /\ lastCall = NoCall
    /\ writable = TRUE
    /\ clock = 1
    /\ ids = <<>>
    /\ idQueue = <<>>
    /\ idMap = <<>>
    /\ idRunning = {}
    /\ idTimers = 0
    /\ progressData = <<>>

\* A scheduler constructed in a directory without a state file.
Init == InitWith(NoFile, {Constructed})

\* A plausible slip in the guard of processNext: > for >=.
CanStart_OffByOne(p, q) == ~(Cardinality(p) > MAX_CONCURRENT_DOWNLOADS \/ Len(q) = 0)

\* processNext, lines 88-90: the early return is taken unless this holds.
CanStart(p, q) == ~(Cardinality(p) >= MAX_CONCURRENT_DOWNLOADS \/ Len(q) = 0)

\* Plausible slips in the retry decision: <= for <, and no ceiling at all.
HasAttemptsLeft_Inclusive(n) == n <= MAX_ATTEMPTS

HasAttemptsLeft_NoCeiling(n) == TRUE

\* processNext, line 121: the retry decision on the incremented counter.
HasAttemptsLeft(n) == n < MAX_ATTEMPTS

\* A plausible slip in the reinsertion: push (plain FIFO) for unshift.
Requeue_AtTail(q, j) == Append(q, j)

\* processNext, line 124: this.queue.unshift(item).
Requeue(q, j) == <<j>> \o q

\* A plausible slip in the catch block: the reinsertion outside the if, so
\* that a terminally failed item is put back as well.
QueueAfterReject_FallThrough(q, j, retry) == Requeue(q, j)

\* processNext, lines 121-130: the queue after the catch block.
QueueAfterReject(q, j, retry) == IF retry THEN Requeue(q, j) ELSE q

\* processNext, lines 121-130: the failed list after the catch block.
FailedAfterReject(f, j, retry) == IF retry THEN f ELSE Append(f, j)

\* A plausible slip in the catch block: the emit outside the else branch.
EmitsDownloadFailed_Always(retry) == TRUE

\* processNext, lines 125-130: downloadFailed is emitted in the else branch.
EmitsDownloadFailed(retry) == ~retry

\* A plausible slip at the end of processNext: processNext is not called again.
ScheduleNext_Forgotten(t) == t

\* processNext, line 137: setTimeout(() => this.processNext(), 1000) adds a
\* pending callback to the t that are pending.
ScheduleNext(t) == t + 1

\* addUrl, line 68: this.queue.push(item).
Enqueue(q, j) == Append(q, j)

\* downloadWithYtDlp up to its first suspension.  An item whose title is still
\* 'Unknown' awaits fetchTitle before yt-dlp is spawned and before item.process
\* is stored; otherwise the process is spawned and stored at once.  The title
\* is known when addUrl was given one (titleGiven, an input of the item's
\* addUrl that the model draws when the item is first started) and after a
\* first attempt, which a retried item (attempts > 0) has behind it.
\* When isURL(item.url) is false (line 23) the async executor throws: its own
\* promise is rejected, nobody handles that, and neither resolve nor reject of
\* the promise that processNext awaits is ever called: the attempt is stuck.
\* urlValid is an input of the item's addUrl as well, drawn at the first
\* start; the URL of a retried item has passed the test before.
AttemptStart(n, titleGiven, urlValid) ==
    IF n = 0 /\ ~urlValid THEN "stuck"
    ELSE IF n > 0 \/ titleGiven THEN "spawned" ELSE "fetching"

\* saveQueueState, lines 260-264: the content of the file after writeFileSync
\* was called to replace old by new; a write that fails (the file cannot be
\* opened for writing) leaves the file as it was.
WriteFile(ok, old, new) == IF ok THEN new ELSE old

\* A plausible slip in saveQueueState: no try/catch around the write, so that
\* the error of a failed write propagates to the caller.
Raises_Uncaught(ok) == ~ok

\* saveQueueState, lines 260-264: the catch block logs the error of a failed
\* write; saveQueueState raises in no case.
Raises(ok) == FALSE

\* A plausible slip in processNext: downloadStarted is emitted for the first
\* attempt of an item only (n is the item's attempts counter).
EmitsDownloadStarted_FirstOnly(n) == n = 0

\* processNext, line 98: this.emit('downloadStarted', item), for every item
\* that is started.
EmitsDownloadStarted(n) == TRUE

\* A plausible slip in processNext: pop for shift.
Shift_Pop(q) == [item |-> q[Len(q)], rest |-> SubSeq(q, 1, Len(q) - 1)]

\* processNext, line 92: this.queue.shift() removes and returns the head.
Shift(q) == [item |-> Head(q), rest |-> Tail(q)]

\* processNext up to its await, called with the queue q, the items it, the file
\* content f and the events ev that the calling handler has emitted so far.
ProcessNext(q, it, f, ev, titleGiven, urlValid) ==
    IF CanStart(processing, q)
    THEN LET j == Shift(q).item
             q1 == Shift(q).rest
             p1 == processing \cup {j}
             it1 == [it EXCEPT ![j].status = "processing"]
         IN /\ queue' = q1
            /\ processing' = p1
            /\ item' = it1
            /\ log' = ev \cup (IF EmitsDownloadStarted(it1[j].attempts)
                                THEN {Emit("downloadStarted", j, q1, p1, completed,
                                           failed, it1)}
                                ELSE {})
            /\ file' = WriteFile(writable, f,
                               SaveQueueState(q1, completed, failed, it1))
            /\ attempt' = [attempt EXCEPT ![j] = AttemptStart(it1[j].attempts, titleGiven,
                                                              urlValid)]
            /\ started' = [started EXCEPT ![j] = @ + 1]
    ELSE /\ queue' = q
         /\ item' = it
         /\ log' = ev
         /\ file' = f
         /\ UNCHANGED <<processing, attempt, started>>

\* addUrl(url, options), lines 47-76.
AddUrl(titleGiven, urlValid) ==
    /\ created < MaxJobs
    /\ LET j == created + 1
           it1 == [item EXCEPT ![j] = [attempts |-> 0, status |-> "queued",
                                       error |-> "none"]]
           q1 == Enqueue(queue, j)
           f1 == WriteFile(writable, file, SaveQueueState(q1, completed, failed, it1))
           ev == {Emit("queueUpdated", j, q1, processing, completed, failed, it1)}
       IN /\ created' = j
          /\ IF Raises(writable)
             THEN \* the error leaves addUrl before processNext is called
                  /\ queue' = q1
                  /\ item' = it1
                  /\ log' = ev
                  /\ file' = f1
                  /\ UNCHANGED <<processing, attempt, started>>
             ELSE ProcessNext(q1, it1, f1, ev, titleGiven, urlValid)
    /\ pausedJobs' = {}
    /\ UNCHANGED <<completed, failed, timers>>
    /\ UNCHANGED <<rvars, writable, ivars, progressData>>

\* A setTimeout(() => this.processNext(), ...) callback runs.
TimerFires(titleGiven, urlValid) ==
    /\ timers > 0
    /\ timers' = timers - 1
    /\ ProcessNext(queue, item, file, {}, titleGiven, urlValid)
    /\ pausedJobs' = {}
    /\ UNCHANGED <<completed, failed, created>>
    /\ UNCHANGED <<rvars, writable, ivars, progressData>>

\* fetchTitle has resolved: the collaborator spawns yt-dlp and stores the handle
\* in item.process (part_002 lines 30, 77, 266).
Spawn(j) ==
    /\ attempt[j] = "fetching"
    /\ attempt' = [attempt EXCEPT ![j] = "spawned"]
    /\ log' = {}
    /\ pausedJobs' = {}
    /\ UNCHANGED <<queue, processing, completed, failed, item, timers, file, created,
                   started>>
    /\ UNCHANGED <<rvars, writable, ivars, progressData>>

\* The promise of item j's attempt resolves (the file already exists, part_002
\* lines 52-55, or yt-dlp closes with code 0): processNext lines 112-115, 133-137.
Resolve(j) ==
    /\ attempt[j] \in {"fetching", "spawned"}
    /\ LET it1 == [item EXCEPT ![j].status = "completed"]
           c1 == Append(completed, j)
           p1 == processing \ {j}
       IN /\ item' = it1
          /\ completed' = c1
          /\ processing' = p1
          /\ log' = {Emit("downloadCompleted", j, queue, processing, c1, failed, it1),
                     Emit("queueUpdated", j, queue, p1, c1, failed, it1)}
          /\ file' = WriteFile(writable, file,
                               SaveQueueState(queue, c1, failed, it1))
    /\ attempt' = [attempt EXCEPT ![j] = "none"]
    /\ timers' = ScheduleNext(timers)
    /\ pausedJobs' = {}
    /\ UNCHANGED <<queue, failed, created, started>>
    /\ UNCHANGED <<rvars, writable, ivars, progressData>>

\* The promise of item j's attempt rejects (yt-dlp closes with a non-zero code,
\* with a reported error, or killed by a signal: code null): processNext lines
\* 117-137.  err is the message of the error.
Reject(j, err) ==
    /\ attempt[j] \in {"spawned", "killed"}
    /\ LET n == item[j].attempts + 1
           retry == HasAttemptsLeft(n)
           it1 == [item EXCEPT ![j].attempts = n,
                               ![j].status = IF retry THEN "queued" ELSE "failed",
                               ![j].error = IF retry THEN @ ELSE err]
           q1 == QueueAfterReject(queue, j, retry)
           f1 == FailedAfterReject(failed, j, retry)
           p1 == processing \ {j}
       IN /\ item' = it1
          /\ queue' = q1
          /\ failed' = f1
          /\ processing' = p1
          /\ log' = {Rejected(j, IF retry THEN "none" ELSE err)}
                    \cup (IF EmitsDownloadFailed(retry)
                          THEN {EmitFailed(j, err, q1, processing, completed, f1, it1)}
                          ELSE {})
                    \cup {Emit("queueUpdated", j, q1, p1, completed, f1, it1)}
          /\ file' = WriteFile(writable, file,
                               SaveQueueState(q1, completed, f1, it1))
    /\ attempt' = [attempt EXCEPT ![j] = "none"]
    /\ timers' = ScheduleNext(timers)
    /\ pausedJobs' = {}
    /\ UNCHANGED <<completed, created, started>>
    /\ UNCHANGED <<rvars, writable, ivars, progressData>>

\* A plausible slip in clearQueue: the processing map is emptied as well.
ProcessingAfterClear_Emptied(p) == {}

\* clearQueue, lines 321-326: this.processing is not assigned.
ProcessingAfterClear(p) == p

\* clearQueue, lines 321-326.  The dropped items are garbage.  The queueUpdated
\* event it emits is about no item, and log holds the events about items.
ClearQueue ==
    /\ queue' = <<>>
    /\ item' = [j \in Jobs |-> IF j \in Range(queue) THEN NoItem ELSE item[j]]
    /\ started' = [j \in Jobs |-> IF j \in Range(queue) THEN 0 ELSE started[j]]
    /\ log' = {}
    /\ file' = WriteFile(writable, file,
                               SaveQueueState(<<>>, completed, failed, item))
    /\ pausedJobs' = {}
    /\ processing' = ProcessingAfterClear(processing)
    /\ UNCHANGED <<completed, failed, attempt, timers, created>>
    /\ UNCHANGED <<rvars, writable, ivars, progressData>>

\* pauseAll, lines 328-337: kill every stored process handle of a processing
\* item, clear the map, save.  A killed yt-dlp closes with code null, so its
\* attempt can only reject.
PauseAll ==
    /\ attempt' = [j \in Jobs |->
                     IF j \in processing /\ attempt[j] = "spawned"
                     THEN "killed" ELSE attempt[j]]
    /\ processing' = {}
    /\ file' = WriteFile(writable, file,
                               SaveQueueState(queue, completed, failed, item))
    /\ pausedJobs' = processing
    /\ log' = {}
    /\ UNCHANGED <<queue, completed, failed, item, timers, created, started>>
    /\ UNCHANGED <<rvars, writable, ivars, progressData>>

\* setInterval(() => this.saveQueueState(), 5000), line 44.
AutoSave ==
    /\ file' = WriteFile(writable, file,
                               SaveQueueState(queue, completed, failed, item))
    /\ log' = {}
    /\ pausedJobs' = {}
    /\ UNCHANGED <<queue, processing, completed, failed, item, attempt, timers,
                   created, started>>
    /\ UNCHANGED <<rvars, writable, ivars, progressData>>

\* A plausible slip in loadQueueState: what can be read of a file that does not
\* parse is used.
Readable_Lenient(f) == f.exists

\* loadQueueState, lines 268-270 and 301-303: the file exists and JSON.parse
\* does not throw; otherwise nothing is assigned.
Readable(f) == f.exists /\ f.parses

\* loadQueueState, lines 272-274: the persisted queue without terminal items.
LoadQueue(recs) ==
    SelectSeq(recs, LAMBDA r : r.status # "completed" /\ r.status # "failed")

\* A plausible slip in loadQueueState: the counter of a restored item starts
\* again at 0.
LoadedAttempts_Reset(n) == 0

\* loadQueueState, line 291: item.attempts = item.attempts || 0.
LoadedAttempts(n) == IF n # 0 THEN n ELSE 0

\* loadQueueState, line 275: this.startTime = state.startTime || Date.now(),
\* for the persisted value saved and the time now of the load.
LoadStartTime(saved, now) == IF saved # 0 THEN saved ELSE now

\* loadQueueState, lines 267-304: the queue, completed and failed lists that a
\* new scheduler holds after it has read the file f; nothing is assigned when f
\* cannot be read.  A restored queue item is set to 'queued'.
LoadQueueState(f) ==
    IF Readable(f)
    THEN LET q == LoadQueue(f.queue)
         IN [queue |-> [i \in 1..Len(q) |->
                          [q[i] EXCEPT !.status = "queued",
                                       !.attempts = LoadedAttempts(@)]],
             completed |-> f.completed,
             failed |-> f.failed]
    ELSE [queue |-> <<>>, completed |-> <<>>, failed |-> <<>>]

\* The process exits (shutdown's process.exit, a crash) and a new DownloadQueue
\* is constructed: constructor lines 11-14 and loadQueueState.  Pending attempts
\* and timers die with the old process.
Restart ==
    /\ LET q == LoadQueueState(file).queue
           c == LoadQueueState(file).completed
           f == LoadQueueState(file).failed
           all == q \o c \o f
           kept == Range(JobsOf(all))
       IN /\ queue' = JobsOf(q)
          /\ completed' = JobsOf(c)
          /\ failed' = JobsOf(f)
          /\ item' = [j \in Jobs |->
                        IF j \in kept
                        THEN LET r == all[CHOOSE i \in 1..Len(all) : all[i].job = j]
                             IN [attempts |-> r.attempts,
                                 status |-> IF j \in Range(JobsOf(q))
                                            THEN "queued" ELSE r.status,
                                 error |-> r.error]
                        ELSE NoItem]
          /\ timers' = IF Len(q) > 0 THEN 1 ELSE 0
          /\ started' = [j \in Jobs |-> IF j \in kept THEN started[j] ELSE 0]
    /\ processing' = {}
    /\ attempt' = [j \in Jobs |-> "none"]
    /\ pausedJobs' = {}
    /\ log' = {Constructed}
    /\ UNCHANGED <<file, created>>
    /\ UNCHANGED <<rvars, writable, ivars, progressData>>

\* A plausible slip in getOverallProgress: the failed items are not counted as
\* done.
GetOverallProgress_CompletedOnly(q, p, c, f) ==
    LET done == Len(c)
        total == Len(c) + Len(f) + Cardinality(p) + Len(q)
    IN IF total > 0 THEN [num |-> done * 100, den |-> total]
       ELSE [num |-> 0, den |-> 1]

\* getOverallProgress, lines 181-185: (done / total) * 100, or 0 when there is
\* no item.  The quotient is kept as a fraction; fractions of these sizes are
\* ordered as their floating-point values are.
GetOverallProgress(q, p, c, f) ==
    LET done == Len(c) + Len(f)
        total == Len(c) + Len(f) + Cardinality(p) + Len(q)
    IN IF total > 0 THEN [num |-> done * 100, den |-> total]
       ELSE [num |-> 0, den |-> 1]

\* a <= b for two such values.
ProgressLeq(a, b) == a.num * b.den <= b.num * a.den

\* getStatus, lines 211-227 (with getFormatBreakdown, getOverallProgress,
\* calculateETA and formatDuration): it reads the lengths of the collections and
\* of the rotator's pool and failed set, emits nothing and assigns no field.
GetStatus ==
    /\ log' = {}
    /\ pausedJobs' = {}
    /\ UNCHANGED <<queue, processing, completed, failed, item, attempt, timers, file,
                   created, started>>
    /\ UNCHANGED <<rvars, writable, ivars, progressData>>

\* A plausible slip in getDetailedStatus: splice(-3) for slice(-3), which
\* removes the last three entries from the array it is called on.
AfterSlice_Splice(arr) == SubSeq(arr, 1, IF Len(arr) > 3 THEN Len(arr) - 3 ELSE 0)

\* getDetailedStatus, lines 353-354: the array after arr.slice(-3), which copies.
AfterSlice(arr) == arr

\* getDetailedStatus, lines 339-356: getStatus, the summaries of the processing
\* items and the last three completed and failed entries.
GetDetailedStatus ==
    /\ completed' = AfterSlice(completed)
    /\ failed' = AfterSlice(failed)
    /\ log' = {}
    /\ pausedJobs' = {}
    /\ UNCHANGED <<queue, processing, item, attempt, timers, file, created, started>>
    /\ UNCHANGED <<rvars, writable, ivars, progressData>>

Next ==
    \/ \E t \in BOOLEAN : \E v \in BOOLEAN : AddUrl(t, v)
    \/ \E t \in BOOLEAN : \E v \in BOOLEAN : TimerFires(t, v)
    \/ \E j \in Jobs : Spawn(j)
    \/ \E j \in Jobs : Resolve(j)
    \/ \E j \in Jobs : \E err \in ErrorMessages : Reject(j, err)
    \/ ClearQueue
    \/ PauseAll
    \/ AutoSave
    \/ Restart
    \/ GetStatus
    \/ GetDetailedStatus

Spec == Init /\ [][Next]_vars

\* The items whose downloadWithYtDlp promise is pending.
Pending == {j \in Jobs : attempt[j] # "none"}

\* The process exits while no attempt is pending, and a new DownloadQueue is
\* constructed.
RestartIdle == Pending = {} /\ Restart

\* The scheduler when every URL is valid and neither pauseAll nor clearQueue is
\* called, and the process exits only between attempts.
LiveNext ==
    \/ \E t \in BOOLEAN : AddUrl(t, TRUE)
    \/ \E t \in BOOLEAN : TimerFires(t, TRUE)
    \/ \E j \in Jobs : Spawn(j)
    \/ \E j \in Jobs : Resolve(j)
    \/ \E j \in Jobs : \E err \in ErrorMessages : Reject(j, err)
    \/ AutoSave
    \/ RestartIdle

\* Node runs a setTimeout callback that is due; fetchTitle resolves when its
\* yt-dlp closes; and every attempt resolves or rejects in the end.
LiveFairness ==
    /\ WF_vars(\E t \in BOOLEAN : TimerFires(t, TRUE))
    /\ \A j \in Jobs : WF_vars(Spawn(j))
    /\ \A j \in Jobs : WF_vars(Resolve(j) \/ \E err \in ErrorMessages : Reject(j, err))

SpecLive == Init /\ [][LiveNext]_vars /\ LiveFairness

\* The items of a state file: each job is absent, queued, completed or failed,
\* with the attempts and the error that go with it.
FileItems ==
    [Jobs -> {NoItem}
             \cup [attempts : 0..(MAX_ATTEMPTS - 1), status : {"queued", "completed"},
                    error : {"none"}]
             \cup [attempts : {MAX_ATTEMPTS}, status : {"failed"}, error : ErrorMessages]]

\* The jobs of status st in it, in the order of their creation.
RECURSIVE Listed(_, _, _)
Listed(it, st, j) ==
    IF j > MaxJobs THEN <<>>
    ELSE (IF it[j].status = st THEN <<j>> ELSE <<>>) \o Listed(it, st, j + 1)

\* The state files a new scheduler can find: none, one that saveQueueState
\* wrote, or one that does not parse (a torn or damaged file).
StateFiles ==
    {NoFile}
    \cup {[SaveQueueState(Listed(it, "queued", 1), Listed(it, "completed", 1),
                          Listed(it, "failed", 1), it) EXCEPT !.parses = ok] :
             it \in FileItems, ok \in BOOLEAN}

\* Before the scheduler is constructed: some state file is on the disk.
LoadInit == \E f \in StateFiles : InitWith(f, {})

\* The construction of the scheduler is the only step.
LoadNext == Restart

SpecLoad == LoadInit /\ [][LoadNext]_vars

\* Before the scheduler is constructed: the state file of an earlier session
\* holds queued items only.
ResumeInit ==
    \E f \in StateFiles :
        /\ f.parses /\ f.completed = <<>> /\ f.failed = <<>>
        /\ InitWith(f, {})

\* The scheduler is constructed and works off the restored queue; nothing is
\* submitted, cleared or paused.
ResumeNext ==
    \/ Restart
    \/ \E t \in BOOLEAN : \E v \in BOOLEAN : TimerFires(t, v)
    \/ \E j \in Jobs : Spawn(j)
    \/ \E j \in Jobs : Resolve(j)
    \/ \E j \in Jobs : \E err \in ErrorMessages : Reject(j, err)

SpecResume == ResumeInit /\ [][ResumeNext]_vars

\* The state file of a scheduler that has just been constructed turns out to be
\* unwritable (the output directory is read-only, the disk is full) and stays
\* so for the session.
DiskFails ==
    /\ writable
    /\ log = {Constructed}
    /\ writable' = FALSE
    /\ UNCHANGED <<vars, rvars, ivars, progressData>>

\* The scheduler on a disk whose writes can fail: jobs are submitted, started
\* and settled.
FaultNext ==
    \/ \E t \in BOOLEAN : \E v \in BOOLEAN : AddUrl(t, v)
    \/ \E t \in BOOLEAN : \E v \in BOOLEAN : TimerFires(t, v)
    \/ \E j \in Jobs : Spawn(j)
    \/ \E j \in Jobs : Resolve(j)
    \/ \E j \in Jobs : \E err \in ErrorMessages : Reject(j, err)
    \/ DiskFails

SpecFault == Init /\ [][FaultNext]_fvars

(***************************************************************************)
(* The progress bookkeeping, part_003 lines 140-179, fed by the samples    *)
(* that an attempt emits (part_002 lines 103-141 and 211-222).  Percents   *)
(* are in tenths of a percent, speeds in KB/s; a speed text is the         *)
(* sequence of its characters.                                             *)
(***************************************************************************)

\* A property that a sample does not have (undefined).
NoText == [defined |-> FALSE, text |-> <<>>]

Text(t) == [defined |-> TRUE, text |-> t]

\* The samples an attempt emits: yt-dlp progress lines with a rate (part_002
\* lines 105-106), with a rate in yt-dlp's binary unit, without a rate
\* ('Unknown'), the final sample ('Complete', line 214), and a sample without
\* the speed property.
Samples ==
    {[percent |-> 400, speed |-> Text(<<"1", ".", "5", "M", "B", "/", "s">>)],
     [percent |-> 805, speed |-> Text(<<"3", "0", "0", "K", "B", "/", "s">>)],
     [percent |-> 250, speed |-> Text(<<"2", ".", "0", "M", "i", "B", "/", "s">>)],
     [percent |-> 100, speed |-> Text(<<"U", "n", "k", "n", "o", "w", "n">>)],
     [percent |-> 1000, speed |-> Text(<<"C", "o", "m", "p", "l", "e", "t", "e">>)],
     [percent |-> 500, speed |-> NoText]}

DigitOf ==
    ("0" :> 0) @@ ("1" :> 1) @@ ("2" :> 2) @@ ("3" :> 3) @@ ("4" :> 4) @@
    ("5" :> 5) @@ ("6" :> 6) @@ ("7" :> 7) @@ ("8" :> 8) @@ ("9" :> 9)

\* The characters of the class [\d.].
IsNumChar(c) == c \in DOMAIN DigitOf \cup {"."}

\* speedStr.match(/([\d.]+)/)[1], line 157: the first longest run of digits
\* and dots of t; the empty sequence when there is none (match is null).
Match(t) ==
    IF \E i \in 1..Len(t) : IsNumChar(t[i])
    THEN LET i == CHOOSE k \in 1..Len(t) :
                     IsNumChar(t[k]) /\ \A m \in 1..(k - 1) : ~IsNumChar(t[m])
             j == CHOOSE k \in i..Len(t) :
                     /\ \A m \in i..k : IsNumChar(t[m])
                     /\ (k = Len(t) \/ ~IsNumChar(t[k + 1]))
         IN SubSeq(t, i, j)
    ELSE <<>>

\* parseFloat of a run of digits and dots, read from position i on: digits, one
\* dot, digits; it stops at a second dot, and is NaN when no digit was read.
\* The value is num / den.
RECURSIVE ParseFrom(_, _, _, _, _, _)
ParseFrom(run, i, num, den, seenDot, digits) ==
    LET result == [nan |-> digits = 0, num |-> num, den |-> den]
    IN IF i > Len(run) THEN result
       ELSE IF run[i] = "."
            THEN IF seenDot THEN result
                 ELSE ParseFrom(run, i + 1, num, den, TRUE, digits)
            ELSE ParseFrom(run, i + 1, num * 10 + DigitOf[run[i]],
                           IF seenDot THEN den * 10 ELSE den, seenDot, digits + 1)

\* parseFloat(speedMatch[1]), line 159.
ParseFloat(run) == ParseFrom(run, 1, 0, 1, FALSE, 0)

\* speedStr.includes(sub), lines 160-161.
Includes(t, sub) ==
    \E i \in 1..(Len(t) - Len(sub) + 1) : SubSeq(t, i, i + Len(sub) - 1) = sub

\* A plausible slip in updateAggregateProgress: no default for a sample
\* without a speed.
SpeedStr_NoDefault(speed) == speed

\* Line 156: progress.speed || '0'.
SpeedStr(speed) ==
    IF ~speed.defined \/ speed.text = <<>> THEN Text(<<"0">>) ELSE speed

\* Line 157: speedStr.match(...) throws a TypeError when speedStr is undefined.
Throws(speed) == ~SpeedStr(speed).defined

\* Lines 156-162: what the sample's speed adds to totalSpeed, as num / den
\* KB/s; nan when it adds NaN.
Contribution(speed) ==
    LET t == SpeedStr(speed).text
        m == Match(t)
        v == ParseFloat(m)
    IN IF m = <<>> THEN [nan |-> FALSE, num |-> 0, den |-> 1]
       ELSE IF Includes(t, <<"M", "B">>) THEN [v EXCEPT !.num = @ * 1024]
       ELSE IF Includes(t, <<"K", "B">>) THEN v
       ELSE [nan |-> FALSE, num |-> 0, den |-> 1]

\* a + b for two such values.
Plus(a, b) ==
    [nan |-> a.nan \/ b.nan, num |-> a.num * b.den + b.num * a.den,
     den |-> a.den * b.den]

\* (num / den).toFixed(1), in tenths.
ToFixed1(num, den) == (20 * num + den) \div (2 * den)

\* Line 153: progress.percent || 0.
PercentOf(sample) == IF sample.percent # 0 THEN sample.percent ELSE 0

\* Line 152: the items the loop counts: those with an entry in progressData
\* whose id is a key of the processing map.
Counted(pd, p) == {j \in DOMAIN pd : j \in p}

\* The loop of lines 151-164 over the items j..MaxJobs.
RECURSIVE Totals(_, _, _)
Totals(pd, p, j) ==
    IF j > MaxJobs
    THEN [progress |-> 0, speed |-> [nan |-> FALSE, num |-> 0, den |-> 1]]
    ELSE LET rest == Totals(pd, p, j + 1)
         IN IF j \in Counted(pd, p)
            THEN [progress |-> rest.progress + PercentOf(pd[j]),
                  speed |-> Plus(Contribution(pd[j].speed), rest.speed)]
            ELSE rest

\* updateAggregateProgress, lines 146-179: the aggregateProgress event, or the
\* mark that the loop threw (then nothing is emitted).
UpdateAggregateProgress(pd, p) ==
    LET n == Cardinality(Counted(pd, p))
        t == Totals(pd, p, 1)
    IN IF \E j \in Counted(pd, p) : Throws(pd[j].speed)
       THEN [name |-> "threw", averageProgress |-> 0, activeDownloads |-> 0,
             totalSpeed |-> 0]
       ELSE [name |-> "aggregateProgress",
             averageProgress |-> IF n > 0 THEN ToFixed1(t.progress, n * 10) ELSE 0,
             activeDownloads |-> n,
             totalSpeed |-> IF t.speed.nan THEN 0 ELSE ToFixed1(t.speed.num, t.speed.den)]

\* this.progressData.set(k, v), line 141.
ProgressSet(m, k, v) == [x \in DOMAIN m \cup {k} |-> IF x = k THEN v ELSE m[x]]

\* handleProgress(item.id, progressInfo), lines 140-144, called by the running
\* attempt of item j with the sample smp.  attempt is history: the number of
\* the item's attempt that emitted the sample.
HandleProgress(j, smp) ==
    /\ attempt[j] = "spawned"
    /\ progressData' = ProgressSet(progressData, j,
                                   [percent |-> smp.percent, speed |-> smp.speed,
                                    attempt |-> started[j]])
    /\ log' = {UpdateAggregateProgress(progressData', processing)}
    /\ UNCHANGED <<queue, processing, completed, failed, item, timers, file, created,
                   started, attempt, pausedJobs>>
    /\ UNCHANGED <<rvars, writable, ivars>>

\* The scheduler with its attempts reporting progress; every URL is valid and
\* has a title, and addUrl is called MaxReporting times at most.
ProgressNext ==
    \/ (created < MaxReporting /\ AddUrl(TRUE, TRUE))
    \/ TimerFires(TRUE, TRUE)
    \/ \E j \in Jobs : Resolve(j)
    \/ \E j \in Jobs : \E err \in ErrorMessages : Reject(j, err)
    \/ \E j \in Jobs : \E smp \in Samples : HandleProgress(j, smp)

SpecProgress == Init /\ [][ProgressNext]_pvars

(***************************************************************************)
(* The scheduler of src/core/DownloadQueue.js, the class the CLI imports:  *)
(* the same fields without the state file, the status of the items and    *)
(* the progress bookkeeping.  SpecCore runs it on the variables of the     *)
(* scheduler; file, pausedJobs and log are not used.                       *)
(***************************************************************************)

\* The value of a field that was never assigned.
Undefined == 0 - 2

\* The relational comparison a >= b of JavaScript for a number a: with b
\* undefined, b converts to NaN and the comparison is false.
JsGeq(a, b) == IF b = Undefined THEN FALSE ELSE a >= b

\* processNext, line 42, reads this.MAX_CONCURRENT_DOWNLOADS.  The constructor
\* (line 15) assigns this.maxConcurrent, and no code assigns the field read.
CoreLimit == Undefined

\* processNext, lines 42-44: the early return is taken unless this holds.
CoreCanStart(p, q) == ~(JsGeq(Cardinality(p), CoreLimit) \/ Len(q) = 0)

\* processNext up to its await, lines 41-58, called with the queue q and the
\* items it.
CoreProcessNext(q, it) ==
    IF CoreCanStart(processing, q)
    THEN LET j == Shift(q).item
         IN /\ queue' = Shift(q).rest
            /\ processing' = processing \cup {j}
            /\ attempt' = [attempt EXCEPT ![j] = "spawned"]
            /\ started' = [started EXCEPT ![j] = @ + 1]
            /\ item' = it
    ELSE /\ queue' = q
         /\ item' = it
         /\ UNCHANGED <<processing, attempt, started>>

\* addUrl(url, title), lines 27-39.  The items of this class have no status;
\* the field of the model marks that the item exists.
CoreAddUrl ==
    /\ created < MaxJobs
    /\ created' = created + 1
    /\ CoreProcessNext(Enqueue(queue, created + 1),
                       [item EXCEPT ![created + 1] =
                           [attempts |-> 0, status |-> "queued", error |-> "none"]])
    /\ UNCHANGED <<completed, failed, timers, file, pausedJobs, log>>
    /\ UNCHANGED <<rvars, writable, ivars, progressData>>

\* A setTimeout(() => this.processNext(), 1000) callback runs (line 81).
CoreTimerFires ==
    /\ timers > 0
    /\ timers' = timers - 1
    /\ CoreProcessNext(queue, item)
    /\ UNCHANGED <<completed, failed, created, file, pausedJobs, log>>
    /\ UNCHANGED <<rvars, writable, ivars, progressData>>

\* The attempt of item j resolves: processNext, lines 60-62 and 77-81.
CoreResolve(j) ==
    /\ attempt[j] = "spawned"
    /\ completed' = Append(completed, j)
    /\ processing' = processing \ {j}
    /\ attempt' = [attempt EXCEPT ![j] = "none"]
    /\ timers' = ScheduleNext(timers)
    /\ UNCHANGED <<queue, failed, item, created, started, file, pausedJobs, log>>
    /\ UNCHANGED <<rvars, writable, ivars, progressData>>

\* The attempt of item j rejects with the message err: processNext, lines
\* 63-81.
CoreReject(j, err) ==
    /\ attempt[j] = "spawned"
    /\ LET n == item[j].attempts + 1
           retry == HasAttemptsLeft(n)
       IN /\ item' = [item EXCEPT ![j].attempts = n,
                                  ![j].error = IF retry THEN @ ELSE err]
          /\ queue' = QueueAfterReject(queue, j, retry)
          /\ failed' = FailedAfterReject(failed, j, retry)
    /\ processing' = processing \ {j}
    /\ attempt' = [attempt EXCEPT ![j] = "none"]
    /\ timers' = ScheduleNext(timers)
    /\ UNCHANGED <<completed, created, started, file, pausedJobs, log>>
    /\ UNCHANGED <<rvars, writable, ivars, progressData>>

CoreNext ==
    \/ CoreAddUrl
    \/ CoreTimerFires
    \/ \E j \in Jobs : CoreResolve(j)
    \/ \E j \in Jobs : \E err \in ErrorMessages : CoreReject(j, err)

SpecCore == Init /\ [][CoreNext]_vars

(***************************************************************************)
(* The ids of the items, part_003 line 55, and the processing Map keyed by *)
(* them.  The specifications above identify an item with its number: they  *)
(* describe the runs in which no two items have the same id.               *)
(***************************************************************************)

\* A double of the size of Date.now() has Res values per millisecond (4096 for
\* a time of this century; 2 here).
Res == 2

\* Math.random() returns one of Grain equidistant values r / Grain in [0, 1)
\* (2^53 of them; 4 here): more than the sum can tell apart.
Grain == 4

\* The numerators of the values of Math.random().
Random == 0..(Grain - 1)

\* addUrl, line 55: Date.now() + Math.random() at the time t with the random
\* numerator r, in units of 1 / Res milliseconds.  The sum is rounded to the
\* nearest double, a tie to the even one.
NewId(t, r) ==
    LET lo == t * Res + ((r * Res) \div Grain)
        rem == (r * Res) % Grain
    IN IF 2 * rem > Grain THEN lo + 1
       ELSE IF 2 * rem < Grain THEN lo
       ELSE IF lo % 2 = 0 THEN lo ELSE lo + 1

\* processNext, line 95: this.processing.set(k, v).
MapSet(m, k, v) == [x \in DOMAIN m \cup {k} |-> IF x = k THEN v ELSE m[x]]

\* processNext, line 133: this.processing.delete(k).
MapDelete(m, k) == [x \in DOMAIN m \ {k} |-> m[x]]

\* processNext up to its await, lines 87-110, called with the queue q; is holds
\* the ids of the items.
IdProcessNext(q, is) ==
    IF CanStart(DOMAIN idMap, q)
    THEN /\ idQueue' = Shift(q).rest
         /\ idMap' = MapSet(idMap, is[Shift(q).item], Shift(q).item)
         /\ idRunning' = idRunning \cup {Shift(q).item}
    ELSE /\ idQueue' = q
         /\ UNCHANGED <<idMap, idRunning>>

\* addUrl, lines 47-76, when Math.random() returns r / Grain.
IdAddUrl(r) ==
    /\ Len(ids) < MaxJobs
    /\ ids' = Append(ids, NewId(clock, r))
    /\ IdProcessNext(Enqueue(idQueue, Len(ids) + 1), Append(ids, NewId(clock, r)))
    /\ UNCHANGED <<clock, idTimers>>
    /\ UNCHANGED <<vars, rvars, writable, progressData>>

\* A millisecond passes.
IdTick ==
    /\ clock < MaxClock
    /\ clock' = clock + 1
    /\ UNCHANGED <<ids, idQueue, idMap, idRunning, idTimers>>
    /\ UNCHANGED <<vars, rvars, writable, progressData>>

\* The attempt of item j resolves: processNext, lines 112-115 and 133-137.
IdSettle(j) ==
    /\ j \in idRunning
    /\ idRunning' = idRunning \ {j}
    /\ idMap' = MapDelete(idMap, ids[j])
    /\ idTimers' = ScheduleNext(idTimers)
    /\ UNCHANGED <<clock, ids, idQueue>>
    /\ UNCHANGED <<vars, rvars, writable, progressData>>

\* A setTimeout(() => this.processNext(), 1000) callback runs.
IdTimerFires ==
    /\ idTimers > 0
    /\ idTimers' = idTimers - 1
    /\ IdProcessNext(idQueue, ids)
    /\ UNCHANGED <<clock, ids>>
    /\ UNCHANGED <<vars, rvars, writable, progressData>>

IdNext ==
    \/ \E r \in Random : IdAddUrl(r)
    \/ IdTick
    \/ \E j \in Jobs : IdSettle(j)
    \/ IdTimerFires

SpecIds == Init /\ [][IdNext]_ivars

(***************************************************************************)
(* The proxy rotator, src/core/ProxyRotator.js                             *)
(***************************************************************************)

\* A plausible slip in rotateToNext: the pointer does not wrap.
RotateToNext_NoWrap(idx, n) == idx + 1

\* rotateToNext, line 45: the pointer after one rotation over n proxies.
RotateToNext(idx, n) == (idx + 1) % n

\* A plausible slip in markAsFailed: the rotation is made only for a proxy that
\* was not failed before.
PointerAfterMark_OnlyNew(idx, n, fp, p) == IF p \in fp THEN idx ELSE RotateToNext(idx, n)

\* markAsFailed, line 54: this.rotateToNext(), whatever proxy p is and whatever
\* the failed set fp held before.
PointerAfterMark(idx, n, fp, p) == RotateToNext(idx, n)

\* A plausible slip in addProxy: unshift for push.
PoolAfterAdd_AtFront(ps, p) == <<p>> \o ps

\* addProxy, line 58: this.proxies.push(proxy).
PoolAfterAdd(ps, p) == Append(ps, p)

\* A plausible slip in the skip test: every proxy counts as usable.
IsUsable_Always(fp, p) == TRUE

\* getCurrentProxy, line 31: !this.failedProxies.has(proxy).
IsUsable(fp, p) == p \notin fp

\* A plausible slip after the full sweep: the failed set is not cleared.
Cleared_Kept(fp) == fp

\* getCurrentProxy, line 40: this.failedProxies.clear().
Cleared(fp) == {}

\* getCurrentProxy, lines 28-41: the loop after n rounds, with the pointer at
\* idx.  The result: the proxy returned, the pointer, the rotations made and
\* the failed set after the call.
RECURSIVE Sweep(_, _, _, _)
Sweep(ps, idx, fp, n) ==
    IF n < Len(ps)
    THEN IF IsUsable(fp, ps[idx + 1])
         THEN [ret |-> ps[idx + 1], index |-> idx, rotations |-> n, failed |-> fp]
         ELSE Sweep(ps, RotateToNext(idx, Len(ps)), fp, n + 1)
    ELSE [ret |-> ps[idx + 1], index |-> idx, rotations |-> n, failed |-> Cleared(fp)]

\* A plausible slip in getCurrentProxy: a round robin, which moves the pointer
\* on after every call.
GetCurrentProxy_RoundRobin(ps, idx, fp) ==
    IF Len(ps) = 0
    THEN [ret |-> NoProxy, index |-> idx, rotations |-> 0, failed |-> fp]
    ELSE [Sweep(ps, idx, fp, 0) EXCEPT !.index = RotateToNext(@, Len(ps)),
                                       !.rotations = @ + 1]

\* getCurrentProxy, lines 24-42.
GetCurrentProxy(ps, idx, fp) ==
    IF Len(ps) = 0
    THEN [ret |-> NoProxy, index |-> idx, rotations |-> 0, failed |-> fp]
    ELSE Sweep(ps, idx, fp, 0)

\* processNext asks for a proxy (part_003 line 101) and hands it to the attempt
\* of slot s, which keeps it as currentProxy (part_002 line 82).
BeginAttempt(s) ==
    /\ currentProxy[s] = Idle
    /\ LET r == GetCurrentProxy(proxies, currentIndex, failedProxies)
       IN /\ rotationCount + r.rotations <= MaxRotations
          /\ currentIndex' = r.index
          /\ failedProxies' = r.failed
          /\ rotationCount' = rotationCount + r.rotations
          /\ currentProxy' = [currentProxy EXCEPT ![s] = r.ret]
          /\ lastCall' = [op |-> "getCurrentProxy", arg |-> NoProxy, ret |-> r.ret]
    /\ failCalls' = [failCalls EXCEPT ![s] = 0]
    /\ UNCHANGED <<proxies, added>>
    /\ UNCHANGED <<vars, writable, ivars, progressData>>

\* The attempt of slot s reads a chunk of yt-dlp's error output (part_002 lines
\* 156-178).  reports: the chunk holds 'HTTP Error 429', 'Too Many Requests',
\* 'HTTP Error 403', 'Forbidden' or 'blocked'; then the attempt calls
\* markProxyAsFailed(currentProxy), which is markAsFailed (ProxyRotator.js
\* lines 51-55).
StderrData(s, reports) ==
    /\ currentProxy[s] # Idle
    /\ IF reports /\ currentProxy[s] # NoProxy
       THEN /\ failCalls[s] < MaxChunks
            /\ rotationCount < MaxRotations
            /\ failedProxies' = failedProxies \cup {currentProxy[s]}
            /\ currentIndex' = PointerAfterMark(currentIndex, Len(proxies),
                                                failedProxies, currentProxy[s])
            /\ rotationCount' = rotationCount + 1
            /\ failCalls' = [failCalls EXCEPT ![s] = @ + 1]
            /\ lastCall' = [op |-> "markAsFailed", arg |-> currentProxy[s],
                            ret |-> NoProxy]
       ELSE UNCHANGED <<failedProxies, currentIndex, rotationCount, failCalls,
                        lastCall>>
    /\ UNCHANGED <<proxies, currentProxy, added>>
    /\ UNCHANGED <<vars, writable, ivars, progressData>>

\* yt-dlp closes: the attempt of slot s is over (part_002 lines 197-258).
EndAttempt(s) ==
    /\ currentProxy[s] # Idle
    /\ currentProxy' = [currentProxy EXCEPT ![s] = Idle]
    /\ failCalls' = [failCalls EXCEPT ![s] = 0]
    /\ UNCHANGED <<proxies, currentIndex, failedProxies, rotationCount, added,
                   lastCall>>
    /\ UNCHANGED <<vars, writable, ivars, progressData>>

\* addProxy(proxy), ProxyRotator.js lines 57-60 (DownloadQueue.addProxy,
\* part_003 lines 317-319).
AddProxy(p) ==
    /\ added < MaxAdded
    /\ added' = added + 1
    /\ proxies' = PoolAfterAdd(proxies, p)
    /\ lastCall' = [op |-> "addProxy", arg |-> p, ret |-> NoProxy]
    /\ UNCHANGED <<currentIndex, failedProxies, rotationCount, currentProxy,
                   failCalls>>
    /\ UNCHANGED <<vars, writable, ivars, progressData>>

RotatorNext ==
    \/ \E s \in Slots : BeginAttempt(s)
    \/ \E s \in Slots : \E reports \in BOOLEAN : StderrData(s, reports)
    \/ \E s \in Slots : EndAttempt(s)
    \/ \E p \in Proxies : AddProxy(p)

SpecRotator == Init /\ [][RotatorNext]_rvars

(***************************************************************************)
(* The claims                                                              *)
(***************************************************************************)

\* A new scheduler has been constructed in the step (the process restarted).
JustConstructed == log = {Constructed}

\* C1: the number of items in the processing map never exceeds maxConcurrent
\* (MAX_CONCURRENT_DOWNLOADS), in every reachable state.
C1_ConcurrencyBound == Cardinality(processing) <= MAX_CONCURRENT_DOWNLOADS

\* C1's case: the map is full while an item waits in the queue.
C1_Witness == Cardinality(processing) = MAX_CONCURRENT_DOWNLOADS /\ Len(queue) > 0

\* C2: the number of attempts that processNext has started and that have not
\* yet resolved or rejected never exceeds maxConcurrent.
C2_AttemptBound == Cardinality(Pending) <= MAX_CONCURRENT_DOWNLOADS

\* C3: an item is in the failed list only after exactly MAX_ATTEMPTS attempts
\* have been started for it, no attempt of it is pending and none can be started
\* (it is not queued); an item still queued has had fewer attempts, and no item
\* ever has more.
C3_RetryCeiling ==
    /\ \A j \in Range(failed) :
          /\ started[j] = MAX_ATTEMPTS
          /\ j \notin Pending
          /\ j \notin Range(queue)
    /\ \A j \in Range(queue) : started[j] < MAX_ATTEMPTS
    /\ \A j \in Jobs : started[j] <= MAX_ATTEMPTS

\* C3's case: an item has failed terminally.
C3_Witness == \E j \in Range(failed) : started[j] = MAX_ATTEMPTS

\* C4: an item whose attempt is rejected with attempts remaining is at the head
\* of the queue after the rejection, and a never attempted item is dequeued
\* only when no attempted item waits in the queue.
C4_RetryPriority ==
    [][/\ \A j \in Jobs :
             (j \in Pending /\ j \notin Pending' /\ j \in Range(queue'))
                 => Head(queue') = j
       /\ \A j \in Jobs :
             (started[j] = 0 /\ started'[j] = 1)
                 => \A k \in Range(queue) : started[k] = 0]_vars

\* C4's case: a rejected item has been dequeued again ahead of a never
\* attempted item, which still waits.
C4_Witness ==
    \E b \in processing : \E a \in Range(queue) :
        started[b] >= 2 /\ item[b].attempts >= 1 /\ started[a] = 0

\* C5: when a new scheduler is constructed from the state persisted while one
\* item was processing and one was queued, both items are in its queue with
\* status queued and it has no processing item.
C5_CrashResume ==
    [][(/\ JustConstructed'
        /\ Cardinality(processing) = 1
        /\ Len(queue) = 1
        /\ file = SaveQueueState(queue, completed, failed, item))
          => /\ Range(queue') = processing \cup Range(queue)
             /\ processing' = {}
             /\ \A j \in Range(queue') : item'[j].status = "queued"]_vars

\* C6: an item whose attempt pauseAll cancelled (its yt-dlp was killed) is in
\* the queue, and not in the failed list, once the cancelled attempt has settled.
C6_PauseNeverFails ==
    [][\A j \in Jobs :
          (attempt[j] = "killed" /\ attempt'[j] = "none" /\ ~JustConstructed')
              => (j \in Range(queue') /\ j \notin Range(failed'))]_vars

\* C7: when the process exits after pauseAll, the new scheduler has every item
\* that was processing when pauseAll was called in its queue, with status queued.
C7_PausedJobsResumable ==
    [][JustConstructed'
          => \A j \in pausedJobs :
                j \in Range(queue') /\ item'[j].status = "queued"]_vars

C9_AttemptsBounded ==
    \A j \in Range(queue) \cup processing : item[j].attempts <= MAX_ATTEMPTS

\* C9's case: loadQueueState has just restored an item on its last attempt.
C9_Witness ==
    JustConstructed /\ \E j \in Range(queue) : item[j].attempts = MAX_ATTEMPTS - 1

\* C10: between handlers and inside the listeners of downloadStarted,
\* downloadCompleted, downloadFailed and queueUpdated, every item is in at most
\* one of queue, processing, completed, failed, and its status names it.
C10_OneCollection ==
    /\ \A j \in Jobs :
          LET w == Where(queue, processing, completed, failed, j)
          IN Cardinality(w) <= 1 /\ w \subseteq {item[j].status}
    /\ \A e \in log :
          e.job # 0 => Cardinality(e.where) <= 1 /\ e.where \subseteq {e.status}

\* getCurrentProxy is called in the step (by a processNext that starts an
\* attempt).
GetCurrentProxyCalled == \E s \in Slots : currentProxy[s] = Idle /\ currentProxy'[s] # Idle

\* Every entry of the pool is in the failed set.
AllFailed == \A i \in 1..Len(proxies) : proxies[i] \in failedProxies

\* C11: when every entry of a non-empty pool has been marked as failed, the
\* next getCurrentProxy returns a pool entry, not null, and the failed set is
\* empty after the call.
C11_ExhaustionRecovery ==
    [][(Len(proxies) > 0 /\ AllFailed /\ GetCurrentProxyCalled)
          => /\ lastCall'.ret # NoProxy
             /\ lastCall'.ret \in Range(proxies)
             /\ failedProxies' = {}]_rvars

\* C11's case: getCurrentProxy has returned a pool entry with the failed set
\* empty after rotations: entries were marked as failed and the set was cleared.
C11_Witness ==
    /\ lastCall.op = "getCurrentProxy"
    /\ lastCall.ret \in Range(proxies)
    /\ failedProxies = {}
    /\ rotationCount > 0

\* C12: getCurrentProxy returns null only when the pool is empty; for a
\* non-empty pool it returns a pool member that is not in the failed set when
\* it returns.
C12_ReturnsUsable ==
    lastCall.op = "getCurrentProxy"
        => /\ lastCall.ret = NoProxy => Len(proxies) = 0
           /\ Len(proxies) > 0 => /\ lastCall.ret \in Range(proxies)
                                  /\ lastCall.ret \notin failedProxies

\* C12's case: getCurrentProxy has skipped the failed first entry of the pool
\* and returned another one while the failed set is not empty.
C12_Witness ==
    /\ lastCall.op = "getCurrentProxy"
    /\ proxies[1] \in failedProxies
    /\ lastCall.ret # proxies[1]

\* C13: for a pool of at least two distinct proxies, getCurrentProxy called
\* immediately after markAsFailed(p) returns a proxy different from p.
C13_RotatesAway ==
    [][(/\ Cardinality(Range(proxies)) >= 2
        /\ lastCall.op = "markAsFailed"
        /\ GetCurrentProxyCalled)
          => lastCall'.ret # lastCall.arg]_rvars

\* C17: during one attempt the proxy-failure callback is called at most once.
C17_AtMostOneCallback == \A s \in Slots : failCalls[s] <= 1

\* C15: every attempt that processNext has delegated settles: as long as it is
\* pending, the collaborator can still resolve or reject it (after fetching the
\* title, if need be); an attempt for a URL that fails validation included.
C15_AttemptsSettle ==
    \A j \in Pending : ENABLED (Spawn(j) \/ Resolve(j) \/ \E err \in ErrorMessages : Reject(j, err))

\* C19: when the catch block of processNext has run for an item, then either
\* the item failed terminally, its entry in the failed list carries the message
\* of the attempt's error and exactly one downloadFailed event, with that
\* error, was emitted for it; or the item is retried and no downloadFailed
\* event was emitted for it.  No downloadFailed event is emitted otherwise, and
\* the error of a failed entry never changes.
C19_ErrorCaptured ==
    [][/\ \A r \in log' :
             r.name = "rejected" =>
                LET ev == {e \in log' : e.name = "downloadFailed" /\ e.job = r.job}
                IN IF r.job \in Range(failed')
                   THEN /\ item'[r.job].error = r.error
                        /\ Cardinality(ev) = 1
                        /\ \A e \in ev : e.error = r.error
                   ELSE ev = {}
       /\ \A e \in log' :
             e.name = "downloadFailed" =>
                \E r \in log' : r.name = "rejected" /\ r.job = e.job
       /\ \A j \in Range(failed) :
             j \in Range(failed') => item'[j].error = item[j].error]_vars

\* C19's case: the last attempt of an item has just been rejected, the item is
\* in the failed list and downloadFailed was emitted, while another item failed
\* earlier with a different message.
C19_Witness ==
    \E r \in log : \E e \in log : \E k \in Range(failed) :
        /\ r.name = "rejected" /\ r.job \in Range(failed)
        /\ e.name = "downloadFailed" /\ e.job = r.job
        /\ k # r.job /\ item[k].error \in ErrorMessages \ {r.error}

\* overallProgress as getStatus reports it now.
OverallProgress == GetOverallProgress(queue, processing, completed, failed)

\* C16: in a step in which no job is submitted and none is removed by
\* clearQueue, the overallProgress that getStatus reports does not decrease.
C16_ProgressMonotone ==
    [][(/\ created' = created
        /\ ~ \E j \in Range(queue) : item'[j].status = "none")
          => ProgressLeq(OverallProgress, OverallProgress')]_vars

C14_EveryJobEnds ==
    \A j \in Jobs :
        (j \in Range(queue) \cup processing) ~> (j \in Range(completed) \cup Range(failed))

\* C14's case: every submitted item has ended, one of them as failed, with the
\* queue drained by the processNext calls that the settlements scheduled.
C14_Witness ==
    /\ created = MaxJobs
    /\ queue = <<>> /\ processing = {}
    /\ Len(completed) + Len(failed) = MaxJobs
    /\ failed # <<>> /\ completed # <<>>

\* C20: a scheduler constructed while the state file is missing or does not
\* parse has empty queue, completed and failed lists, no item processing and no
\* processNext scheduled, as on a cold start.
C20_ColdStart ==
    (JustConstructed /\ (~file.exists \/ ~file.parses))
        => /\ queue = <<>> /\ completed = <<>> /\ failed = <<>>
           /\ processing = {}
           /\ timers = 0
           /\ item = [j \in Jobs |-> NoItem]

\* C20's case: a scheduler has been constructed over a state file that does not
\* parse and that was written with a queued, a completed and a failed item.
C20_Witness ==
    /\ JustConstructed
    /\ file.exists /\ ~file.parses
    /\ file.queue # <<>> /\ file.completed # <<>> /\ file.failed # <<>>

\* markAsFailed is called in the step (by the error-output handler of an
\* attempt).
MarkAsFailedCalled == \E s \in Slots : failCalls'[s] = failCalls[s] + 1

\* C28: markAsFailed(p) leaves the failed set equal to the previous one plus p
\* and moves the pointer forward by exactly one position (wrapping), whether or
\* not p was failed before and whether or not p is the entry at the pointer.
C28_MarkAddsAndRotates ==
    [][MarkAsFailedCalled
          => /\ failedProxies' = failedProxies \cup {lastCall'.arg}
             /\ currentIndex' = (currentIndex + 1) % Len(proxies)]_rvars

\* C28's case: markAsFailed has just been called, for the second time in one
\* attempt, with a proxy that is not the entry the pointer was at.
C28_Witness ==
    /\ lastCall.op = "markAsFailed"
    /\ \E s \in Slots : failCalls[s] = 2 /\ currentProxy[s] = lastCall.arg
    /\ proxies[((currentIndex + Len(proxies) - 1) % Len(proxies)) + 1] # lastCall.arg

\* C29: every step moves the pointer by one position, modulo the pool size,
\* for each rotation it counts, and the pointer is a valid index of the pool,
\* also after addProxy.
C29_PointerInPool ==
    [][/\ 0 <= currentIndex' /\ currentIndex' < Len(proxies')
       /\ rotationCount' >= rotationCount
       /\ currentIndex' = (currentIndex + rotationCount' - rotationCount) % Len(proxies)]_rvars

\* C29's case: after addProxy the pointer has wrapped around the longer pool.
C29_Witness ==
    /\ added > 0
    /\ rotationCount > Len(proxies)
    /\ currentIndex = 0

\* addProxy is called in the step.
AddProxyCalled == added' = added + 1

\* C30: addProxy appends the new entry at the end of the pool and leaves the
\* pointer, the failed set, the rotation counter and the existing entries as
\* they are.
C30_AddProxyAppends ==
    [][AddProxyCalled
          => /\ proxies' = Append(proxies, lastCall'.arg)
             /\ UNCHANGED <<currentIndex, failedProxies, rotationCount>>]_rvars

\* C30's case: addProxy has just added an entry while the pointer was not at
\* the start and a proxy was failed.
C30_Witness ==
    /\ lastCall.op = "addProxy"
    /\ proxies[Len(proxies)] = lastCall.arg
    /\ currentIndex > 0
    /\ failedProxies # {}

\* calculateETA, line 188: the elapsed times (Date.now() - this.startTime, in
\* milliseconds) the estimate is computed for.
ElapsedSamples == {0, 999, 1000, 59999, 60000, 3600000}

\* calculateETA, line 193: the text returned while nothing can be estimated.
Calculating == [text |-> "Calculating...", first |-> 0, second |-> 0]

\* formatDuration, lines 201-209, for a duration of num/den milliseconds: whole
\* seconds, minutes and hours, and the two-part text chosen by the largest unit.
FormatDuration(num, den) ==
    LET seconds == (num \div den) \div 1000
        minutes == seconds \div 60
        hours == minutes \div 60
    IN IF hours > 0 THEN [text |-> "h m", first |-> hours, second |-> minutes % 60]
       ELSE IF minutes > 0 THEN [text |-> "m s", first |-> minutes, second |-> seconds % 60]
       ELSE [text |-> "s", first |-> seconds, second |-> 0]

\* A plausible slip in calculateETA: the sentinel also when nothing remains.
StillCalculating_NothingLeft(nCompleted, total) == nCompleted = 0 \/ total = nCompleted

\* calculateETA, line 192: completed === 0 || total === 0.
StillCalculating(nCompleted, total) == nCompleted = 0 \/ total = 0

\* calculateETA, lines 187-199, at elapsed milliseconds after startTime:
\* remaining items times the average time of a completed item.
CalculateETA(elapsed, q, p, c, f) ==
    LET nCompleted == Len(c)
        total == nCompleted + Len(f) + Cardinality(p) + Len(q)
        remaining == total - nCompleted - Len(f)
    IN IF StillCalculating(nCompleted, total)
       THEN Calculating
       ELSE FormatDuration(remaining * elapsed, nCompleted)

\* C21: calculateETA returns 'Calculating...' whenever the completed list is
\* empty and a formatted duration whenever at least one job is completed.
C21_EtaSentinel ==
    \A e \in ElapsedSamples :
        LET eta == CalculateETA(e, queue, processing, completed, failed)
        IN /\ completed = <<>> => eta = Calculating
           /\ completed # <<>> => /\ eta.text \in {"h m", "m s", "s"}
                                  /\ eta.first >= 0 /\ eta.second >= 0

\* C21's case: one job is completed, two are not yet, and an hour has passed:
\* the estimate is two hours.
C21_Witness ==
    /\ Len(completed) = 1
    /\ Len(queue) + Cardinality(processing) = 2
    /\ CalculateETA(3600000, queue, processing, completed, failed)
           = [text |-> "h m", first |-> 2, second |-> 0]

C23_NoIdleSlot ==
    (timers = 0 /\ Pending = processing)
        => (queue = <<>> \/ Cardinality(processing) = MAX_CONCURRENT_DOWNLOADS)

\* Item j is in the queue and has never been attempted.
WaitingFresh(j) == j \in Range(queue) /\ item[j].attempts = 0

\* C24: jobs that have never been attempted are started in submission order
\* (jobs are numbered in the order of their addUrl calls): when the first
\* attempt of b starts, no job submitted before b is still waiting for its
\* first attempt.
C24_FreshInOrder ==
    [][\A b \in Jobs :
          (WaitingFresh(b) /\ started'[b] = started[b] + 1)
              => \A a \in Jobs : a < b => ~WaitingFresh(a)']_vars

\* C24's case: of three never attempted jobs that waited together, the first two
\* have been started and the third still waits.
C24_Witness ==
    /\ started[1] = 1 /\ started[2] = 1 /\ started[3] = 0
    /\ WaitingFresh(3)
    /\ item[1].attempts = 0 /\ item[2].attempts = 0
    /\ completed = <<1>> /\ processing = {2}

\* The handler of the step emits the event n about item j.
Emitted(n, j) == \E e \in log' : e.name = n /\ e.job = j

\* An attempt of item j starts in the step.
AttemptStarts(j) == started'[j] = started[j] + 1

\* The pending attempt of item j resolves or rejects in the step.
AttemptSettles(j) == attempt[j] # "none" /\ attempt'[j] = "none" /\ ~JustConstructed'

\* Item j is in the completed list or in the failed list.
Ended(j) == j \in Range(completed) \cup Range(failed)

\* C25: the lifecycle events of every job are ordered.  downloadStarted is
\* emitted exactly when an attempt starts; an attempt starts only while no
\* earlier attempt of the job is unsettled and the job has not ended;
\* downloadCompleted or downloadFailed, never both, is emitted exactly when an
\* attempt settles without the job being put back in the queue, once per job,
\* and the job is then in the list the event names.
C25_LifecycleOrder ==
    [][\A j \in Jobs :
          /\ AttemptStarts(j) <=> Emitted("downloadStarted", j)
          /\ AttemptStarts(j) => (attempt[j] = "none" /\ ~Ended(j))
          /\ (AttemptSettles(j) /\ j \notin Range(queue'))
                <=> (Emitted("downloadCompleted", j) \/ Emitted("downloadFailed", j))
          /\ ~(Emitted("downloadCompleted", j) /\ Emitted("downloadFailed", j))
          /\ Emitted("downloadCompleted", j) => (~Ended(j) /\ j \in Range(completed'))
          /\ Emitted("downloadFailed", j) => (~Ended(j) /\ j \in Range(failed'))]_vars

\* C25's case: a job has had three attempts, each started after the one before
\* had settled, and downloadFailed has just been emitted for it, while another
\* job, started later, has been completed.
C25_Witness ==
    \E j \in Jobs :
        /\ started[j] = MAX_ATTEMPTS
        /\ \E e \in log : e.name = "downloadFailed" /\ e.job = j
        /\ j \in Range(failed)
        /\ completed # <<>>

\* addUrl is called in the step.
AddUrlCalled == created' = created + 1

\* C26: when the write of the state file fails, addUrl still returns the id of
\* the new job (the job exists) and still calls processNext (the head of the
\* queue is started when a slot is free), and queue, processing, completed and
\* failed are what they are after a successful write.
C26_WriteFailureHarmless ==
    [][(AddUrlCalled /\ ~writable)
          => LET j == created + 1
                 q1 == Append(queue, j)
             IN /\ item'[j].status \in {"queued", "processing"}
                /\ IF Cardinality(processing) < MAX_CONCURRENT_DOWNLOADS
                   THEN /\ queue' = Tail(q1)
                        /\ processing' = processing \cup {Head(q1)}
                        /\ started'[Head(q1)] = started[Head(q1)] + 1
                   ELSE /\ queue' = q1
                        /\ processing' = processing
                /\ completed' = completed
                /\ failed' = failed]_fvars

\* C26's case: no write has ever succeeded, and addUrl has just been called for
\* the third job: two jobs are processing and one waits.
C26_Witness ==
    /\ ~writable
    /\ ~file.exists
    /\ \E e \in log : e.name = "queueUpdated" /\ e.job = created
    /\ Cardinality(processing) = MAX_CONCURRENT_DOWNLOADS
    /\ Len(queue) = 1

\* C22: two items created by separate addUrl calls never have the same id,
\* also when both calls are made in the same millisecond, so that every item
\* with a pending attempt is the one the processing Map holds under its id.
C22_UniqueIds ==
    /\ \A a \in 1..Len(ids) : \A b \in 1..Len(ids) : a # b => ids[a] # ids[b]
    /\ \A j \in idRunning : ids[j] \in DOMAIN idMap /\ idMap[ids[j]] = j

\* C31: overallProgress is (completed + failed) / (queued + processing +
\* completed + failed) as a percentage, 0 when there is no job, and so lies
\* between 0 and 100.
C31_OverallProgressRatio ==
    LET done == Len(completed) + Len(failed)
        total == Len(queue) + Cardinality(processing) + Len(completed) + Len(failed)
    IN /\ total = 0 => OverallProgress.num = 0
       /\ total > 0 => OverallProgress.num * total = 100 * done * OverallProgress.den
       /\ OverallProgress.den > 0
       /\ 0 <= OverallProgress.num
       /\ OverallProgress.num <= 100 * OverallProgress.den

\* C31's case: of three jobs one is completed and one failed: 200 / 3 percent.
C31_Witness ==
    /\ Len(completed) = 1 /\ Len(failed) = 1
    /\ Len(queue) + Cardinality(processing) = 1
    /\ OverallProgress = [num |-> 200, den |-> 3]

\* C35: every item that addUrl has created (and that neither clearQueue nor
\* the end of the process has dropped) is in at least one of queue,
\* processing, completed and failed between two handlers, also after pauseAll.
C35_NoJobDropped ==
    \A j \in Jobs :
        item[j].status # "none" => Where(queue, processing, completed, failed, j) # {}

\* C36: the handler that runs right after pauseAll starts no attempt unless
\* it is addUrl.
C36_QuietAfterPause ==
    [][(pausedJobs # {} /\ ~AddUrlCalled) => \A j \in Jobs : ~AttemptStarts(j)]_vars

\* clearQueue is called in the step, with a queue that is not empty.
ClearQueueCalled == queue # <<>> /\ queue' = <<>> /\ log' = {}

\* C37: clearQueue empties the queue and leaves processing, completed, failed,
\* the pending attempts and timers and the rotator as they are; an attempt that
\* is rejected with attempts left puts its item at the head of the queue, a
\* cleared one included, and schedules processNext.
C37_ClearQueueFrame ==
    [][/\ ClearQueueCalled
          => /\ UNCHANGED <<processing, completed, failed, attempt, timers>>
             /\ UNCHANGED rvars
       /\ \A j \in Jobs :
             (AttemptSettles(j) /\ item'[j].attempts = item[j].attempts + 1
                  /\ item'[j].attempts < MAX_ATTEMPTS)
                 => /\ queue' = <<j>> \o queue
                    /\ timers' = timers + 1]_vars

\* C37's case: the third job was cleared from the queue while the first two
\* were running; the first has just been rejected and put back into the empty
\* queue, and processNext is scheduled.
C37_Witness ==
    /\ created = 3 /\ item[3] = NoItem
    /\ Rejected(1, "none") \in log
    /\ queue = <<1>> /\ item[1].attempts = 1
    /\ processing = {2}
    /\ timers = 1

\* C38: of two consecutive getCurrentProxy calls, with no markAsFailed and no
\* addProxy between them, the second returns the proxy the first returned and
\* changes neither the pointer, the failed set nor the rotation counter.
C38_GetCurrentProxyIdempotent ==
    [][(lastCall.op = "getCurrentProxy" /\ GetCurrentProxyCalled)
          => /\ lastCall'.ret = lastCall.ret
             /\ UNCHANGED <<currentIndex, failedProxies, rotationCount>>]_rvars

\* C38's case: two attempts started back to back, after the first entry of the
\* pool was marked as failed, hold the same proxy.
C38_Witness ==
    /\ lastCall.op = "getCurrentProxy"
    /\ failedProxies # {}
    /\ currentProxy[1] = lastCall.ret /\ currentProxy[2] = lastCall.ret
    /\ failCalls[1] = 0 /\ failCalls[2] = 0
    /\ currentIndex > 0

\* C34: in the scheduler of src/core/DownloadQueue.js the processing map, and
\* with it the set of running attempts, never holds more than
\* MAX_CONCURRENT_DOWNLOADS items, however many addUrl calls are made.
C34_CoreConcurrencyBound ==
    /\ Cardinality(processing) <= MAX_CONCURRENT_DOWNLOADS
    /\ \A j \in processing : attempt[j] = "spawned"

\* The percent that item j reports in its current attempt: that of the last
\* sample the attempt emitted, 0 when it has emitted none.
CurrentPercent(j) ==
    IF j \in DOMAIN progressData /\ progressData[j].attempt = started[j]
    THEN progressData[j].percent ELSE 0

RECURSIVE SumCurrent(_)
SumCurrent(j) ==
    IF j > MaxJobs THEN 0
    ELSE (IF j \in processing THEN CurrentPercent(j) ELSE 0) + SumCurrent(j + 1)

\* C32: the averageProgress of an aggregateProgress event is the mean, over
\* the items in the processing map, of the percent of the last sample of the
\* item's current attempt (0 when nothing is processing), and activeDownloads
\* is the size of the processing map.
C32_AverageOverProcessing ==
    \A e \in log : e.name = "aggregateProgress" =>
        /\ e.activeDownloads = Cardinality(processing)
        /\ e.averageProgress =
               IF processing = {} THEN 0
               ELSE ToFixed1(SumCurrent(1), 10 * Cardinality(processing))

\* What each speed is to add to totalSpeed, in KB/s: 1.5 MB/s and 300 KB/s are
\* rates in a unit the code knows, the others are not.
ExpectedSpeed(speed) ==
    IF speed = Text(<<"1", ".", "5", "M", "B", "/", "s">>) THEN 1536
    ELSE IF speed = Text(<<"3", "0", "0", "K", "B", "/", "s">>) THEN 300
    ELSE 0

RECURSIVE SumExpected(_)
SumExpected(j) ==
    IF j > MaxJobs THEN 0
    ELSE (IF j \in Counted(progressData, processing)
          THEN ExpectedSpeed(progressData[j].speed) ELSE 0) + SumExpected(j + 1)

\* C33: updateAggregateProgress does not throw for any speed of a sample; a
\* speed that is missing, not a number or in a unit it does not know adds 0
\* to totalSpeed, a rate in MB/s or KB/s is added in KB/s.
C33_SpeedNeverThrows ==
    \A e \in log :
        /\ e.name # "threw"
        /\ e.name = "aggregateProgress" => e.totalSpeed = 10 * SumExpected(1)

\* Two items are processing, one at 1.5 MB/s and one at 300 KB/s: the event
\* carries 1836.0 KB/s.
C33_Witness ==
    /\ Cardinality(processing) = 2
    /\ \E e \in log : /\ e.name = "aggregateProgress"
                       /\ e.activeDownloads = 2
                       /\ e.totalSpeed = 18360

====
